---------------------------- MODULE Spec2Model ----------------------------
(***************************************************************************)
(* Model of flashscore.py: a sequential crawler that walks                 *)
(* root pages -> tournament pages -> image assets, stores eligible images  *)
(* under ./output/<region>/<normalized-name>.png and keeps run statistics. *)
(*                                                                         *)
(* Text is modelled as a sequence of one-character strings, so that the    *)
(* string functions of the source are computed character by character.     *)
(* The network, the HTML parser and the file system are the environment:   *)
(* each request is answered by a response drawn from a bounded set, the    *)
(* file system is a set of directories and a map of files.                 *)
(***************************************************************************)
EXTENDS Integers, Sequences, FiniteSets, TLC

(***************************************************************************)
(* Text primitives (Python str / re semantics)                             *)
(***************************************************************************)
None == <<"<None>">>

UpperChars == <<"A","B","C","D","E","F","G","H","I","J","K","L","M",
                "N","O","P","Q","R","S","T","U","V","W","X","Y","Z">>
LowerChars == <<"a","b","c","d","e","f","g","h","i","j","k","l","m",
                "n","o","p","q","r","s","t","u","v","w","x","y","z">>

IsUpper(c) == \E i \in 1..26 : UpperChars[i] = c
IsLower(c) == \E i \in 1..26 : LowerChars[i] = c
IsAlpha(c) == IsUpper(c) \/ IsLower(c)
LowerChar(c) == IF IsUpper(c) THEN LowerChars[CHOOSE i \in 1..26 : UpperChars[i] = c] ELSE c
UpperChar(c) == IF IsLower(c) THEN UpperChars[CHOOSE i \in 1..26 : LowerChars[i] = c] ELSE c

\* str.lower()
Lower(s) == [i \in 1..Len(s) |-> LowerChar(s[i])]

\* the characters matched by \s and stripped by str.strip()
Whitespace == {" ", "\t", "\n"}

\* str.strip()
RECURSIVE LStrip(_)
LStrip(s) == IF s # <<>> /\ Head(s) \in Whitespace THEN LStrip(Tail(s)) ELSE s
RECURSIVE RStrip(_)
RStrip(s) == IF s # <<>> /\ s[Len(s)] \in Whitespace
             THEN RStrip(SubSeq(s, 1, Len(s) - 1)) ELSE s
Strip(s) == RStrip(LStrip(s))

\* str.endswith(suffix)
EndsWith(s, suffix) ==
    /\ Len(s) >= Len(suffix)
    /\ SubSeq(s, Len(s) - Len(suffix) + 1, Len(s)) = suffix

\* str.startswith(prefix)
StartsWith(s, prefix) ==
    /\ Len(s) >= Len(prefix)
    /\ SubSeq(s, 1, Len(prefix)) = prefix

\* str.replace(old, new) for a one-character old
ReplaceChar(s, old, new) == [i \in 1..Len(s) |-> IF s[i] = old THEN new ELSE s[i]]

\* str.title(): a letter that follows a non-letter is upper-cased, any other lower-cased
Title(s) == [i \in 1..Len(s) |->
               IF i = 1 \/ ~IsAlpha(s[i - 1]) THEN UpperChar(s[i]) ELSE LowerChar(s[i])]

\* str.split(sep) for a one-character sep: the list of fields
RECURSIVE SplitFrom(_, _, _)
SplitFrom(s, sep, field) ==
    IF s = <<>> THEN <<field>>
    ELSE IF Head(s) = sep THEN <<field>> \o SplitFrom(Tail(s), sep, <<>>)
    ELSE SplitFrom(Tail(s), sep, Append(field, Head(s)))

Split(s, sep) == SplitFrom(s, sep, <<>>)

\* re.sub(r'\s+', '-', s): every maximal run of whitespace becomes one hyphen
RECURSIVE SubWhitespaceRuns(_)
SubWhitespaceRuns(s) ==
    IF s = <<>> THEN <<>>
    ELSE IF Head(s) \in Whitespace
         THEN <<"-">> \o SubWhitespaceRuns(LStrip(s))
         ELSE <<Head(s)>> \o SubWhitespaceRuns(Tail(s))

(***************************************************************************)
(* Pure functions of the source                                            *)
(***************************************************************************)
PngSuffix == <<".", "p", "n", "g">>

\* a faulty variant of normalize_filename: each space replaced, runs not collapsed
normalize_filename_each(name) == ReplaceChar(Lower(name), " ", "-")

normalize_filename(name) ==
    ReplaceChar(SubWhitespaceRuns(Lower(name)), " ", "-")

ForbiddenChars == {"\\", "/", ":", "*", "?", "\"", "<", ">", "|"}

sanitize_folder_name(name) ==
    [i \in 1..Len(name) |-> IF name[i] \in ForbiddenChars THEN "-" ELSE name[i]]

is_png_image(url) == EndsWith(Lower(url), PngSuffix)


(***************************************************************************)
(* Program constants                                                       *)
(***************************************************************************)
OUTPUT_DIR == <<".","/","o","u","t","p","u","t">>

\* scheme://host is carried as one element of a URL's text: no function of the
\* program looks inside it
SiteOrigin == "https://www.flashscore.com"

base_urls == << <<SiteOrigin>> \o <<"/","f","o","o","t","b","a","l","l","/","a","f","r","i","c","a">>,
               <<SiteOrigin>> \o <<"/","f","o","o","t","b","a","l","l","/","a","s","i","a">> >>

UnknownRegion == <<"U","n","k","n","o","w","n","-","R","e","g","i","o","n">>

(***************************************************************************)
(* urllib.parse.urljoin(base, ref), for the reference shapes the pages     *)
(* use: an absolute URL, a network-path reference (//host/...), an         *)
(* absolute path (/...) and a relative path.  A network-path reference     *)
(* with an unbalanced '[' makes urljoin raise ValueError.                  *)
(***************************************************************************)
Contains(s, c) == \E i \in 1..Len(s) : s[i] = c

Origins == {SiteOrigin}

HasScheme(ref) == ref # <<>> /\ Head(ref) \in Origins

\* scheme://host of an absolute URL
Origin(url) == <<Head(url)>>

\* the URL up to and including the last '/' of its path
DirOf(url) ==
    LET path == Tail(url)
    IN  IF Contains(path, "/")
        THEN Origin(url) \o SubSeq(path, 1, CHOOSE i \in 1..Len(path) :
                                     path[i] = "/" /\ \A j \in (i + 1)..Len(path) : path[j] # "/")
        ELSE Origin(url) \o <<"/">>

UrljoinRaises(ref) ==
    /\ StartsWith(ref, <<"/", "/">>)
    /\ Contains(ref, "[") # Contains(ref, "]")

urljoin(base, ref) ==
    IF ref = <<>> THEN base
    ELSE IF HasScheme(ref) THEN ref
    ELSE IF StartsWith(ref, <<"/", "/">>)
         THEN <<"https:">> \o ref
    ELSE IF Head(ref) = "/" THEN Origin(base) \o ref
    ELSE DirOf(base) \o ref


(***************************************************************************)
(* A parsed page, as far as the program looks at it:                       *)
(*   pattern  the text captured by the breadcrumb regex on str(soup),      *)
(*            or None when the regex does not match (the capture [^<]+     *)
(*            is never empty, but may be all whitespace)                   *)
(*   spans    for each <span> in document order: the text of its next      *)
(*            sibling when that is an <a> of class breadcrumb__link,       *)
(*            else None                                                    *)
(*   crumbs   the texts of soup.select('a.breadcrumb__link')               *)
(*   urls     the indexes of the base_urls that occur in str(soup)         *)
(*   raises   the parser raises while the region is extracted              *)
(*   links    the href of each a.leftMenu__href (None: no href)            *)
(*   imgs     <<src, alt>> of each img.heading__logo.heading__logo--1      *)
(*            (None: attribute missing)                                    *)
(***************************************************************************)
\* index of the first span whose next sibling is a breadcrumb anchor, 0 when none
RECURSIVE FirstGiven(_)
FirstGiven(seq) ==
    IF seq = <<>> THEN 0
    ELSE IF Head(seq) # None THEN 1
    ELSE LET r == FirstGiven(Tail(seq)) IN IF r = 0 THEN 0 ELSE r + 1

\* index of the first breadcrumb whose stripped text is not empty, 0 when none
RECURSIVE FirstWithText(_)
FirstWithText(seq) ==
    IF seq = <<>> THEN 0
    ELSE IF Strip(Head(seq)) # <<>> THEN 1
    ELSE LET r == FirstWithText(Tail(seq)) IN IF r = 0 THEN 0 ELSE r + 1

LastField(url) == LET f == Split(url, "/") IN f[Len(f)]

\* a faulty variant of extract_region_name_from_html: the breadcrumb anchors of
\* lines 76-82 looked at before the pattern of lines 59-64
extract_region_name_from_html_crumbs_first(soup) ==
    IF soup.raises THEN UnknownRegion
    ELSE IF FirstWithText(soup.crumbs) # 0
         THEN sanitize_folder_name(Strip(soup.crumbs[FirstWithText(soup.crumbs)]))
    ELSE IF soup.pattern # None
         THEN sanitize_folder_name(Strip(soup.pattern))
    ELSE IF FirstGiven(soup.spans) # 0
         THEN sanitize_folder_name(Strip(soup.spans[FirstGiven(soup.spans)]))
    ELSE IF \E i \in 1..Len(base_urls) : i \in soup.urls
         THEN LET i == CHOOSE k \in 1..Len(base_urls) :
                          k \in soup.urls /\ \A j \in 1..(k - 1) : j \notin soup.urls
              IN  sanitize_folder_name(Title(ReplaceChar(LastField(base_urls[i]), "-", " ")))
    ELSE UnknownRegion

extract_region_name_from_html(soup) ==
    IF soup.raises THEN UnknownRegion
    ELSE IF soup.pattern # None
         THEN sanitize_folder_name(Strip(soup.pattern))
    ELSE IF FirstGiven(soup.spans) # 0
         THEN sanitize_folder_name(Strip(soup.spans[FirstGiven(soup.spans)]))
    ELSE IF FirstWithText(soup.crumbs) # 0
         THEN sanitize_folder_name(Strip(soup.crumbs[FirstWithText(soup.crumbs)]))
    ELSE IF \E i \in 1..Len(base_urls) : i \in soup.urls
         THEN LET i == CHOOSE k \in 1..Len(base_urls) :
                          k \in soup.urls /\ \A j \in 1..(k - 1) : j \notin soup.urls
              IN  sanitize_folder_name(Title(ReplaceChar(LastField(base_urls[i]), "-", " ")))
    ELSE UnknownRegion

(***************************************************************************)
(* The file system.  A location is the sequence of path segments from the  *)
(* working directory; dirs is the set of directories, files maps each      *)
(* regular file to what was written to it.                                 *)
(***************************************************************************)
Cwd == <<>>
Dot == <<".">>
DotDot == <<".", ".">>
RootDir == << <<"/">> >>
NoEntry == << <<"<", "E", "N", "O", "E", "N", "T", ">">> >>

\* os.path.join(a, b)
path_join(a, b) ==
    IF b # <<>> /\ Head(b) = "/" THEN b
    ELSE IF a = <<>> \/ a[Len(a)] = "/" THEN a \o b
    ELSE a \o <<"/">> \o b

ParentOf(loc) ==
    IF loc = RootDir THEN RootDir
    ELSE IF loc = <<>> \/ loc[Len(loc)] = DotDot THEN Append(loc, DotDot)
    ELSE SubSeq(loc, 1, Len(loc) - 1)

\* the kernel's path walk: every component that is followed must be a directory
RECURSIVE WalkFrom(_, _, _)
WalkFrom(loc, segs, ds) ==
    IF segs = <<>> THEN loc
    ELSE IF loc \notin ds THEN NoEntry
    ELSE IF Head(segs) = <<>> \/ Head(segs) = Dot THEN WalkFrom(loc, Tail(segs), ds)
    ELSE IF Head(segs) = DotDot THEN WalkFrom(ParentOf(loc), Tail(segs), ds)
    ELSE WalkFrom(Append(loc, Head(segs)), Tail(segs), ds)

\* a path as the kernel reads it: where the walk starts and the components it follows
PathWalk(path) ==
    [from |-> IF path # <<>> /\ Head(path) = "/" THEN RootDir ELSE Cwd,
     segs |-> Split(path, "/"),
     empty |-> path = <<>>]

Locate(walk, ds) == IF walk.empty THEN NoEntry ELSE WalkFrom(walk.from, walk.segs, ds)

\* os.path.exists(path), for the location loc the path leads to
Present(loc, ds, fs) == loc # NoEntry /\ (loc \in ds \/ loc \in DOMAIN fs)

path_exists(walk, ds, fs) == Present(Locate(walk, ds), ds, fs)

\* open(path, 'wb') succeeds, for the location loc the path leads to
CanOpen(loc, ds) == loc # NoEntry /\ loc \notin ds /\ loc # <<>> /\ ParentOf(loc) \in ds

\* os.makedirs(path) can succeed: no component is a regular file
RECURSIVE Prefixes(_)
Prefixes(loc) == IF loc = <<>> THEN {<<>>} ELSE {loc} \cup Prefixes(SubSeq(loc, 1, Len(loc) - 1))

\* the location a path names, by its text alone (os.makedirs walks it head first)
RECURSIVE Lexical(_, _)
Lexical(loc, segs) ==
    IF segs = <<>> THEN loc
    ELSE IF Head(segs) = <<>> \/ Head(segs) = Dot THEN Lexical(loc, Tail(segs))
    ELSE IF Head(segs) = DotDot THEN Lexical(ParentOf(loc), Tail(segs))
    ELSE Lexical(Append(loc, Head(segs)), Tail(segs))

MakedirsTarget(path) == Lexical(IF path # <<>> /\ Head(path) = "/" THEN RootDir ELSE Cwd,
                                Split(path, "/"))

CanMakedirs(target, fs) == \A loc \in Prefixes(target) : loc \notin DOMAIN fs


(***************************************************************************)
(* Bounds of the model and the bounded sets the environment answers from   *)
(***************************************************************************)
MaxRuns == 2       \* runs of main, one after the other, on the same disk
MaxLinks == 2      \* a.leftMenu__href elements on a root page
MaxImgs == 2       \* heading logo elements on a tournament page
MaxLinksMany == 1  \* the same two, where several runs are explored
MaxImgsMany == 1
MaxLinksBroken == 1  \* a.leftMenu__href elements on a root page whose region cannot be extracted

SeqsUpTo(S, n) == UNION {[1..k -> S] : k \in 0..n}

T_Africa == <<"A","f","r","i","c","a">>
T_asia == <<"a","s","i","a">>
T_blank == <<" ">>

NoRegionMarkup == [pattern |-> None, spans |-> <<>>, crumbs |-> <<>>, urls |-> {},
                   raises |-> FALSE]

M_Africa == [NoRegionMarkup EXCEPT !.pattern = T_Africa, !.crumbs = <<T_Africa>>]
M_asia == [NoRegionMarkup EXCEPT !.spans = <<None, T_asia>>, !.crumbs = <<T_asia>>]
M_blank == [NoRegionMarkup EXCEPT !.pattern = T_blank, !.crumbs = <<T_blank>>]
M_raises == [NoRegionMarkup EXCEPT !.raises = TRUE]

Href_a == <<"/","a","/">>
Href_b == <<"/","b","/">>

Src_a == <<"/","a",".","p","n","g">>
Src_c == <<"/","c",".","s","v","g">>
Src_bad == <<"/","/","[","x">>   \* urljoin raises ValueError on it

\* <<src, alt>> of logo elements
Img_plain == <<Src_a, <<"A"," ","b">> >>
Img_svg == <<Src_c, <<"C">> >>
Img_up == <<Src_a, <<".",".","/","a","s","i","a","/","Y">> >>
Img_nosrc == <<None, <<"C">> >>
Img_bad == <<Src_bad, <<"C">> >>

Soup(markup, links, imgs) ==
    [pattern |-> markup.pattern, spans |-> markup.spans, crumbs |-> markup.crumbs,
     urls |-> markup.urls, raises |-> markup.raises, links |-> links, imgs |-> imgs]

NoSoup == Soup(NoRegionMarkup, <<>>, <<>>)

\* what requests.get + raise_for_status + BeautifulSoup give for a page
PageFailed == [ok |-> FALSE, soup |-> NoSoup]
RootPagesOf(markups, hrefs, n) ==
    {PageFailed} \cup
    { [ok |-> TRUE, soup |-> Soup(m, l, <<>>)] : m \in markups, l \in SeqsUpTo(hrefs, n) }
TournamentPagesOf(imgs, n) ==
    {PageFailed} \cup
    { [ok |-> TRUE, soup |-> Soup(NoRegionMarkup, <<>>, i)] : i \in SeqsUpTo(imgs, n) }

RootPagesOne == RootPagesOf({M_Africa, M_blank}, {Href_a, None}, MaxLinks)
                    \cup RootPagesOf({M_raises}, {Href_a}, MaxLinksBroken)
RootPagesMany == RootPagesOf({M_Africa, M_asia}, {Href_a, Href_b}, MaxLinksMany)
TournamentPagesOne == TournamentPagesOf({Img_plain, Img_svg, Img_nosrc}, MaxImgs)
                          \cup {[ok |-> TRUE,
                                 soup |-> Soup(NoRegionMarkup, <<>>, <<Img_bad, Img_plain>>)]}
TournamentPagesMany == TournamentPagesOf({Img_plain, Img_up}, MaxImgsMany)

\* what the GET of an asset gives: "ok" the whole body; "failed" requests.get raises
\* or the status is >= 400 and raise_for_status raises (one except clause takes both,
\* before the file is opened); "cut" the body breaks off while it is streamed
AssetAnswers == {"ok", "failed", "cut"}


(***************************************************************************)
(* State                                                                   *)
(***************************************************************************)
VARIABLES
    pc,           \* where main is: "main", "roots", "tournaments", "images", "done", "crashed"
    run,          \* the number of the current run of the script
    rootIdx,      \* main's position in base_urls
    tournaments,  \* the list scrape_tournament_pages returned for the current root
    tIdx,         \* main's position in tournaments
    images,       \* the <<src, alt>> of the images of the current tournament page
    iIdx,         \* scrape_images' position in images
    stats,        \* the module-level dict stats
    dirs, files,  \* the disk
    out,          \* the region headers printed in this run
    summary,      \* the "Total: ..." line printed by this run, None before
    remote,       \* what the remote site has answered so far, when it answers consistently
    steady,       \* TRUE: the remote site gives one answer per URL, the disk never fails
    many,         \* TRUE: main is run more than once
    last,         \* what the last step did
    startFiles,   \* files as they were when this run began
    startStats,   \* stats as they were when this run's main was entered
    tally,        \* what the environment handed to this run, counted by kind
    wcount,       \* how often each location was opened for writing in this run
    call          \* a function of the module called by itself: argument and result

ctrl == <<pc, run, rootIdx, tournaments, tIdx, images, iIdx>>
disk == <<dirs, files>>
mode == <<steady, many>>
vars == <<pc, run, rootIdx, tournaments, tIdx, images, iIdx, stats, dirs, files, out,
          summary, remote, steady, many, last, startFiles, startStats, tally, wcount,
          call>>

NoRegions == [r \in {} |-> 0]

\* stats as the module creates it
InitStats == [downloaded |-> 0, skipped_not_png |-> 0, error |-> 0,
              regions |-> NoRegions, current_region |-> None]

\* stats["regions"][region]: the defaultdict makes the entry on first access
RegionEntry(regions, region) ==
    IF region \in DOMAIN regions THEN regions[region] ELSE [images |-> 0, tournaments |-> 0]

SetRegion(regions, region, entry) ==
    [r \in DOMAIN regions \cup {region} |-> IF r = region THEN entry ELSE regions[r]]

AddError(st) == [st EXCEPT !.error = @ + 1]

NoTally == [stored |-> 0, ineligible |-> 0, present |-> 0, failed |-> 0,
            roots |-> 0, harvested |-> 0, visited |-> 0, tagged |-> [r \in {} |-> 0]]
NoLast == [op |-> "none", ev |-> "none", gets |-> 0, loc |-> NoEntry, url |-> None]
NoCall == [fn |-> "none", arg |-> <<>>, done |-> FALSE, text |-> <<>>, flag |-> FALSE]
NoRemote == [pages |-> [u \in {} |-> PageFailed], assets |-> [u \in {} |-> "ok"]]

InitDisk(d) ==
    /\ dirs = {Cwd, <<DotDot>>, RootDir} \cup d
    /\ files = [l \in {} |-> "whole"]

InitCommon ==
    /\ pc = "main" /\ run = 1 /\ rootIdx = 0
    /\ tournaments = <<>> /\ tIdx = 0 /\ images = <<>> /\ iIdx = 0
    /\ stats = InitStats
    /\ \E d \in {{}, {MakedirsTarget(OUTPUT_DIR)}} : InitDisk(d)
    /\ out = <<>> /\ summary = None
    /\ remote = NoRemote
    /\ last = NoLast
    /\ startFiles = files /\ startStats = stats
    /\ tally = NoTally
    /\ wcount = [l \in {} |-> 0]
    /\ call = NoCall

Init == InitCommon /\ steady = FALSE /\ many = FALSE

InitRuns == InitCommon /\ steady \in BOOLEAN /\ many = TRUE


(***************************************************************************)
(* The environment's answers                                               *)
(***************************************************************************)
\* the page the remote site gives for url; a steady site repeats its answer
PageAnswer(url, page) ==
    /\ (steady /\ url \in DOMAIN remote.pages) => page = remote.pages[url]
    /\ remote' = IF steady
                 THEN [remote EXCEPT !.pages =
                          [u \in DOMAIN remote.pages \cup {url} |->
                              IF u = url THEN page ELSE remote.pages[u]]]
                 ELSE remote

AssetAnswer(url, answer, asked) ==
    /\ (steady /\ url \in DOMAIN remote.assets) => answer = remote.assets[url]
    /\ remote' = IF steady /\ asked
                 THEN [remote EXCEPT !.assets =
                          [u \in DOMAIN remote.assets \cup {url} |->
                              IF u = url THEN answer ELSE remote.assets[u]]]
                 ELSE remote

\* the pages and assets the remote site may serve
RootPages == IF many THEN RootPagesMany ELSE RootPagesOne

TournamentPages == IF many THEN TournamentPagesMany ELSE TournamentPagesOne

\* how a call of download_image may go: the disk refuses os.makedirs or open
\* (permissions, space), or lets them be, and the GET gives answer.  The first
\* failure ends the call, so one failure per call covers them all.
Weather ==
    { <<"none", a>> : a \in AssetAnswers } \cup
    (IF steady THEN {} ELSE { <<d, "ok">> : d \in {"makedirs", "open"} })

(***************************************************************************)
(* download_image(img_url, region_folder, img_name), as the result of the  *)
(* call: the new stats and disk, the kind of outcome, the number of GET    *)
(* requests issued and the location written.                               *)
(*   refused  the call the disk refuses: "makedirs", "open" or "none"      *)
(*   answer   what the GET gives                                           *)
(***************************************************************************)
FolderPath(region_folder) == path_join(OUTPUT_DIR, region_folder)

FileName(img_name) ==
    LET normalized_name == normalize_filename(img_name)
    IN  IF EndsWith(normalized_name, PngSuffix) THEN normalized_name
        ELSE normalized_name \o PngSuffix

ImgPath(region_folder, img_name) == path_join(FolderPath(region_folder), FileName(img_name))

\* The texts the bounded pages can hand to the program, and what the functions
\* above make of each of them (computed once, looked up at each step)
KnownMarkups == {M_Africa, M_asia, M_blank, M_raises}
KnownHrefs == {Href_a, Href_b}
KnownImgs == {Img_plain, Img_svg, Img_up, Img_nosrc, Img_bad}
KnownRegions == {extract_region_name_from_html(m) : m \in KnownMarkups}
KnownAlts == {i[2] : i \in KnownImgs} \ {None}
KnownSrcs == {i[1] : i \in KnownImgs} \ {None}
KnownPages == {urljoin(base_urls[b], h) : b \in 1..Len(base_urls), h \in KnownHrefs}

OutputWalk == PathWalk(OUTPUT_DIR)
OutputTarget == MakedirsTarget(OUTPUT_DIR)
FolderWalk == [r \in KnownRegions |-> PathWalk(FolderPath(r))]
FolderTarget == [r \in KnownRegions |-> MakedirsTarget(FolderPath(r))]
ImgWalk == [r \in KnownRegions |-> [n \in KnownAlts |-> PathWalk(ImgPath(r, n))]]
AssetUrl == [p \in KnownPages |-> [s \in KnownSrcs |-> urljoin(p, s)]]
KnownAssets == {AssetUrl[p][s] : p \in KnownPages, s \in KnownSrcs}
IsPng == [u \in KnownAssets |-> is_png_image(u)]

\* the files after open(loc, 'wb') and the writes: the whole body, or a part of it
Written(fs, loc, whole) ==
    [l \in DOMAIN fs \cup {loc} |-> IF l = loc THEN (IF whole THEN "whole" ELSE "part") ELSE fs[l]]

\* lines 99-103: the eligibility test that opens download_image
Ineligible(img_url) == ~IsPng[img_url]

\* a faulty variant of AlreadyThere: the test of lines 123-125 left out
AlreadyThere_left_out(loc, ds) == FALSE

\* lines 123-125: something is already at the derived path
AlreadyThere(loc, ds) == Present(loc, ds, files)

\* a faulty variant of StatsAfter: the asset that is not a PNG counted as an error
StatsAfter_skip_as_error(ev, region_folder) ==
    IF ev = "exists" THEN stats
    ELSE IF ev = "downloaded"
    THEN [stats EXCEPT
            !.downloaded = @ + 1,
            !.regions = SetRegion(stats.regions, region_folder,
                            [RegionEntry(stats.regions, region_folder)
                                EXCEPT !.images = @ + 1])]
    ELSE AddError(stats)

\* a faulty variant of StatsAfter: downloaded counted before the body is written
StatsAfter_count_first(ev, region_folder) ==
    IF ev = "not_png" THEN [stats EXCEPT !.skipped_not_png = @ + 1]
    ELSE IF ev = "exists" THEN stats
    ELSE IF ev \in {"downloaded", "write_failed"}
    THEN [(IF ev = "write_failed" THEN AddError(stats) ELSE stats) EXCEPT
            !.downloaded = @ + 1,
            !.regions = SetRegion(stats.regions, region_folder,
                            [RegionEntry(stats.regions, region_folder)
                                EXCEPT !.images = @ + 1])]
    ELSE AddError(stats)

\* lines 102, 137-138, 146: the counters after a call that ended as ev
StatsAfter(ev, region_folder) ==
    IF ev = "not_png" THEN [stats EXCEPT !.skipped_not_png = @ + 1]
    ELSE IF ev = "exists" THEN stats
    ELSE IF ev = "downloaded"
    THEN [stats EXCEPT
            !.downloaded = @ + 1,
            !.regions = SetRegion(stats.regions, region_folder,
                            [RegionEntry(stats.regions, region_folder)
                                EXCEPT !.images = @ + 1])]
    ELSE AddError(stats)

\* lines 132-134: the files after a call that ended as ev
FilesAfter(ev, loc) ==
    IF ev = "downloaded" THEN Written(files, loc, TRUE)
    ELSE IF ev = "write_failed" THEN Written(files, loc, FALSE)
    ELSE files

download_image(img_url, region_folder, img_name, refused, answer) ==
    LET full_folder_path == FolderWalk[region_folder]
        makes == ~path_exists(full_folder_path, dirs, files)
        made == refused # "makedirs" /\ CanMakedirs(FolderTarget[region_folder], files)
        ds == IF makes /\ made THEN dirs \cup Prefixes(FolderTarget[region_folder])
              ELSE dirs
        img_path == ImgWalk[region_folder][img_name]
        loc == Locate(img_path, ds)
        ev == IF Ineligible(img_url) THEN "not_png"
              ELSE IF makes /\ ~made THEN "makedirs_failed"
              ELSE IF AlreadyThere(loc, ds) THEN "exists"
              ELSE IF answer = "failed" THEN "get_failed"
              ELSE IF ~(refused # "open" /\ CanOpen(loc, ds)) THEN "open_failed"
              ELSE IF answer = "cut" THEN "write_failed"
              ELSE "downloaded"
        early == ev \in {"not_png", "makedirs_failed"}
    IN  [st |-> StatsAfter(ev, region_folder),
         ds |-> IF early THEN dirs ELSE ds,
         fs |-> FilesAfter(ev, loc),
         ev |-> ev,
         gets |-> IF early \/ ev = "exists" THEN 0 ELSE 1,
         loc |-> IF early THEN NoEntry ELSE loc]

(***************************************************************************)
(* Control: where the loops of main and scrape_images go next              *)
(***************************************************************************)
ToNextRoot ==
    /\ pc' = "roots" /\ rootIdx' = rootIdx + 1
    /\ tournaments' = <<>> /\ tIdx' = 0 /\ images' = <<>> /\ iIdx' = 0

\* a faulty variant of ToNextTournament: the rest of the root's tournaments given up
ToNextTournament_gives_up == ToNextRoot

ToNextTournament ==
    IF tIdx < Len(tournaments)
    THEN /\ pc' = "tournaments" /\ tIdx' = tIdx + 1
         /\ images' = <<>> /\ iIdx' = 0
         /\ UNCHANGED <<rootIdx, tournaments>>
    ELSE ToNextRoot

ToNextImage ==
    IF iIdx < Len(images)
    THEN /\ iIdx' = iIdx + 1
         /\ UNCHANGED <<pc, rootIdx, tournaments, tIdx, images>>
    ELSE ToNextTournament

(***************************************************************************)
(* main, lines 209-214: create the output directory, print the banner      *)
(***************************************************************************)
MainInit ==
    /\ pc = "main"
    /\ \E refused \in (IF steady THEN {"none"} ELSE {"none", "makedirs"}) :
          IF path_exists(OutputWalk, dirs, files)
          THEN pc' = "roots" /\ dirs' = dirs
          ELSE IF refused = "none" /\ CanMakedirs(OutputTarget, files)
          THEN pc' = "roots" /\ dirs' = dirs \cup Prefixes(OutputTarget)
          ELSE pc' = "crashed" /\ dirs' = dirs   \* os.makedirs raises, nothing catches it
    /\ rootIdx' = 1
    /\ startStats' = stats
    /\ last' = [NoLast EXCEPT !.op = "main"]
    /\ UNCHANGED <<run, tournaments, tIdx, images, iIdx, stats, files, out, summary,
                   remote, mode, startFiles, tally, wcount, call>>

(***************************************************************************)
(* One pass of main's loop over base_urls, lines 217-226, with the call of *)
(* scrape_tournament_pages(base_url), lines 149-182                        *)
(***************************************************************************)
Truthy(x) == x # None /\ x # <<>>

RECURSIVE Harvest(_, _, _)
Harvest(links, base_url, region_name) ==
    IF links = <<>> THEN <<>>
    ELSE (IF Truthy(Head(links))
          THEN << [url |-> urljoin(base_url, Head(links)), region |-> region_name] >>
          ELSE <<>>) \o Harvest(Tail(links), base_url, region_name)

\* a faulty variant of scrape_tournament_pages: the region's count added to, line 175
scrape_tournament_pages_adds(base_url, page) ==
    IF ~page.ok
    THEN [st |-> AddError(stats), found |-> <<>>]
    ELSE LET region_name == extract_region_name_from_html(page.soup)
             found == Harvest(page.soup.links, base_url, region_name)
         IN  [st |-> [stats EXCEPT
                        !.current_region = region_name,
                        !.regions = SetRegion(stats.regions, region_name,
                                        [RegionEntry(stats.regions, region_name)
                                            EXCEPT !.tournaments = @ + Len(found)])],
              found |-> found]

scrape_tournament_pages(base_url, page) ==
    IF ~page.ok
    THEN [st |-> AddError(stats), found |-> <<>>]
    ELSE LET region_name == extract_region_name_from_html(page.soup)
             found == Harvest(page.soup.links, base_url, region_name)
         IN  [st |-> [stats EXCEPT
                        !.current_region = region_name,
                        !.regions = SetRegion(stats.regions, region_name,
                                        [RegionEntry(stats.regions, region_name)
                                            EXCEPT !.tournaments = Len(found)])],
              found |-> found]

ScrapeRoot ==
    /\ pc = "roots" /\ rootIdx <= Len(base_urls)
    /\ \E page \in RootPages :
          LET r == scrape_tournament_pages(base_urls[rootIdx], page) IN
          /\ PageAnswer(base_urls[rootIdx], page)
          /\ stats' = r.st
          /\ tally' = [tally EXCEPT !.failed = IF page.ok THEN @ ELSE @ + 1,
                                    !.roots = @ + 1,
                                    !.harvested = @ + Len(r.found),
                                    !.tagged = IF r.found = <<>> THEN @
                                               ELSE [g \in DOMAIN @ \cup {r.found[1].region} |->
                                                       (IF g \in DOMAIN @ THEN @[g] ELSE 0)
                                                       + (IF g = r.found[1].region
                                                          THEN Len(r.found) ELSE 0)]]
          /\ last' = [NoLast EXCEPT !.op = "root",
                                    !.ev = IF ~page.ok THEN "fetch_failed"
                                           ELSE IF page.soup.raises THEN "extract_failed"
                                           ELSE "fetched",
                                    !.gets = 1, !.url = base_urls[rootIdx]]
          /\ IF r.found = <<>>
             THEN ToNextRoot /\ out' = out
             ELSE /\ out' = Append(out,
                              [root |-> rootIdx,
                               region |-> r.st.current_region,
                               count |-> r.st.regions[r.st.current_region].tournaments])
                  /\ pc' = "tournaments" /\ tournaments' = r.found /\ tIdx' = 1
                  /\ UNCHANGED <<rootIdx, images, iIdx>>
    /\ UNCHANGED <<run, disk, summary, mode, startFiles, startStats, wcount, call>>

(***************************************************************************)
(* scrape_images(tournament), lines 184-196: fetch and parse the page      *)
(***************************************************************************)
ScrapeImages ==
    /\ pc = "tournaments"
    /\ \E page \in TournamentPages :
          /\ PageAnswer(tournaments[tIdx].url, page)
          /\ stats' = IF page.ok THEN stats ELSE AddError(stats)
          /\ tally' = [tally EXCEPT !.failed = IF page.ok THEN @ ELSE @ + 1,
                                    !.visited = @ + 1]
          /\ last' = [NoLast EXCEPT !.op = "tournament",
                                    !.ev = IF page.ok THEN "fetched" ELSE "fetch_failed",
                                    !.gets = 1, !.url = tournaments[tIdx].url]
          /\ IF page.ok /\ page.soup.imgs # <<>>
             THEN /\ pc' = "images" /\ images' = page.soup.imgs /\ iIdx' = 1
                  /\ UNCHANGED <<rootIdx, tournaments, tIdx>>
             ELSE ToNextTournament
    /\ UNCHANGED <<run, disk, out, summary, mode, startFiles, startStats, wcount, call>>

(***************************************************************************)
(* One pass of the loop of scrape_images, lines 197-207, with the call of  *)
(* download_image, lines 97-147                                            *)
(***************************************************************************)
DownloadStep ==
    /\ pc = "images"
    /\ LET img_url == images[iIdx][1]
           img_name == images[iIdx][2]
           tournament == tournaments[tIdx]
       IN  IF ~(Truthy(img_url) /\ Truthy(img_name))
           THEN /\ last' = [NoLast EXCEPT !.op = "image", !.ev = "no_src_or_alt"]
                /\ ToNextImage
                /\ UNCHANGED <<stats, disk, remote, tally, wcount>>
           ELSE IF UrljoinRaises(img_url)
           THEN \* the exception leaves the loop, lines 205-207
                /\ stats' = AddError(stats)
                /\ tally' = [tally EXCEPT !.failed = @ + 1]
                /\ last' = [NoLast EXCEPT !.op = "image", !.ev = "urljoin_raised"]
                /\ ToNextTournament
                /\ UNCHANGED <<disk, remote, wcount>>
           ELSE LET url == AssetUrl[tournament.url][img_url] IN
                \E w \in Weather :
                  LET d == download_image(url, tournament.region, img_name, w[1], w[2])
                  IN  /\ AssetAnswer(url, w[2], d.gets = 1)
                      /\ stats' = d.st /\ dirs' = d.ds /\ files' = d.fs
                      /\ last' = [op |-> "download", ev |-> d.ev, gets |-> d.gets,
                                  loc |-> d.loc, url |-> url]
                      /\ tally' = [tally EXCEPT
                                     !.stored = IF d.ev = "downloaded" THEN @ + 1 ELSE @,
                                     !.ineligible = IF d.ev = "not_png" THEN @ + 1 ELSE @,
                                     !.present = IF d.ev = "exists" THEN @ + 1 ELSE @,
                                     !.failed = IF d.ev \in {"makedirs_failed", "get_failed",
                                                             "open_failed", "write_failed"}
                                                THEN @ + 1 ELSE @]
                      /\ wcount' = IF d.ev \in {"write_failed", "downloaded"}
                                   THEN [l \in DOMAIN wcount \cup {d.loc} |->
                                           IF l = d.loc
                                           THEN (IF l \in DOMAIN wcount THEN wcount[l] ELSE 0) + 1
                                           ELSE wcount[l]]
                                   ELSE wcount
                      /\ ToNextImage
    /\ UNCHANGED <<run, out, summary, mode, startFiles, startStats, call>>

(***************************************************************************)
(* main, lines 233-239: the final statistics                               *)
(***************************************************************************)
Finalize ==
    /\ pc = "roots" /\ rootIdx > Len(base_urls)
    /\ pc' = "done"
    /\ summary' = [downloaded |-> stats.downloaded, skipped |-> stats.skipped_not_png,
                   error |-> stats.error]
    /\ last' = [NoLast EXCEPT !.op = "finalize"]
    /\ UNCHANGED <<run, rootIdx, tournaments, tIdx, images, iIdx, stats, disk, out,
                   remote, mode, startFiles, startStats, tally, wcount, call>>

(***************************************************************************)
(* The script is run again: a new process, lines 16-22 make stats anew     *)
(***************************************************************************)
NewProcess ==
    /\ pc \in {"done", "crashed"} /\ run < MaxRuns
    /\ pc' = "main" /\ run' = run + 1 /\ rootIdx' = 0
    /\ stats' = InitStats /\ startStats' = InitStats
    /\ out' = <<>> /\ summary' = None
    /\ last' = NoLast
    /\ startFiles' = files
    /\ tally' = NoTally
    /\ wcount' = [l \in {} |-> 0]
    /\ UNCHANGED <<tournaments, tIdx, images, iIdx, disk, remote, mode, call>>

(***************************************************************************)
(* main() is called again in the same process (the module imported and     *)
(* main called twice): stats is the same dict as before                    *)
(***************************************************************************)
MainAgain ==
    /\ pc = "done" /\ run < MaxRuns
    /\ pc' = "main" /\ run' = run + 1 /\ rootIdx' = 0
    /\ out' = <<>> /\ summary' = None
    /\ last' = NoLast
    /\ startFiles' = files
    /\ tally' = NoTally
    /\ wcount' = [l \in {} |-> 0]
    /\ UNCHANGED <<tournaments, tIdx, images, iIdx, stats, startStats, disk, remote, mode, call>>

Next ==
    \/ MainInit
    \/ ScrapeRoot
    \/ ScrapeImages
    \/ DownloadStep
    \/ Finalize

Spec == Init /\ [][Next]_vars

\* main is run more than once: by running the script again, or by calling main again
NextRuns ==
    \/ Next
    \/ NewProcess
    \/ MainAgain

SpecRuns == InitRuns /\ [][NextRuns]_vars

(***************************************************************************)
(* The functions of the module called by themselves, as an importing       *)
(* program or a test calls them: the argument is drawn from bounded sets   *)
(* of URLs, display names and parsed pages, the action applies the         *)
(* function to it.                                                         *)
(***************************************************************************)
MaxLen == 4        \* characters of a display name
MaxCrumbs == 2     \* breadcrumb anchors, and spans, of a page

NameChars == {"A", "b", " ", "\t"}
GroupAStage == <<"G","r","o","u","p"," ","A"," ","S","t","a","g","e">>
MultiSpace == <<" "," ","M","u","l","t","i"," "," "," ","S","p","a","c","e"," ">>
Names == SeqsUpTo(NameChars, MaxLen) \cup {GroupAStage, MultiSpace}

UrlBase == <<"h","t","t","p",":","/","/","x","/","y","/">>
UrlStems == {<<>>, <<"l","o","g","o">>}
UrlExts == {<<>>, <<".","p","n","g">>, <<".","P","N","G">>, <<".","P","n","g">>, <<".","s","v","g">>, <<".","p","n","g","x">>}
UrlTails == {<<>>, <<"?","v","=","1">>, <<"#","f">>, <<"?","f","=",".","p","n","g">>}
Urls == {UrlBase \o st \o e \o t : st \in UrlStems, e \in UrlExts, t \in UrlTails}

T_slash == <<"A","/","B">>
CrumbTexts == {T_Africa, T_blank, T_slash}

\* the pages: an anchor matched by the pattern or found after a span is one of
\* the breadcrumb anchors of the page
Markups ==
    { [pattern |-> p, spans |-> sp, crumbs |-> c, urls |-> u, raises |-> r] :
        c \in SeqsUpTo(CrumbTexts, MaxCrumbs), p \in {None} \cup CrumbTexts,
        sp \in SeqsUpTo({None} \cup CrumbTexts, MaxCrumbs),
        u \in SUBSET (1..Len(base_urls)), r \in BOOLEAN }

Soups ==
    { Soup(m, <<>>, <<>>) : m \in
        { k \in Markups :
            /\ k.pattern # None => \E i \in 1..Len(k.crumbs) : k.crumbs[i] = k.pattern
            /\ \A j \in 1..Len(k.spans) :
                  k.spans[j] # None => \E i \in 1..Len(k.crumbs) : k.crumbs[i] = k.spans[j] } }

InitLib ==
    /\ pc = "lib" /\ run = 1 /\ rootIdx = 0
    /\ tournaments = <<>> /\ tIdx = 0 /\ images = <<>> /\ iIdx = 0
    /\ stats = InitStats
    /\ InitDisk({})
    /\ out = <<>> /\ summary = None
    /\ remote = NoRemote
    /\ last = NoLast
    /\ startFiles = files /\ startStats = stats
    /\ tally = NoTally
    /\ wcount = [l \in {} |-> 0]
    /\ steady = FALSE /\ many = FALSE
    /\ call \in { [NoCall EXCEPT !.fn = "is_png_image", !.arg = u] : u \in Urls }
             \cup { [NoCall EXCEPT !.fn = "normalize_filename", !.arg = n] : n \in Names }
             \cup { [NoCall EXCEPT !.fn = "extract_region_name_from_html", !.arg = p] :
                       p \in Soups }

program == <<pc, run, rootIdx, tournaments, tIdx, images, iIdx, stats, dirs, files, out,
             summary, remote, steady, many, last, startFiles, startStats, tally, wcount>>

CallIsPng ==
    /\ pc = "lib" /\ call.fn = "is_png_image" /\ ~call.done
    /\ call' = [call EXCEPT !.done = TRUE, !.flag = is_png_image(call.arg)]
    /\ UNCHANGED program

CallNormalize ==
    /\ pc = "lib" /\ call.fn = "normalize_filename" /\ ~call.done
    /\ call' = [call EXCEPT !.done = TRUE, !.text = normalize_filename(call.arg)]
    /\ UNCHANGED program

CallExtract ==
    /\ pc = "lib" /\ call.fn = "extract_region_name_from_html" /\ ~call.done
    /\ call' = [call EXCEPT !.done = TRUE,
                            !.text = extract_region_name_from_html(call.arg)]
    /\ UNCHANGED program

NextLib ==
    \/ CallIsPng
    \/ CallNormalize
    \/ CallExtract

SpecLib == InitLib /\ [][NextLib]_vars

(***************************************************************************)
(* The call scrape_images is about to make, lines 199-203                  *)
(***************************************************************************)
Calling ==
    /\ pc = "images"
    /\ Truthy(images[iIdx][1]) /\ Truthy(images[iIdx][2])
    /\ ~UrljoinRaises(images[iIdx][1])

CallUrl == urljoin(tournaments[tIdx].url, images[iIdx][1])

CallPath == PathWalk(ImgPath(tournaments[tIdx].region, images[iIdx][2]))

(***************************************************************************)
(* Properties                                                              *)
(***************************************************************************)

\* C1: when the remote source answers the same in both runs, the second run of
\* main downloads nothing (its increment of downloaded is 0) and leaves the
\* files on disk exactly as the first run left them.
C1_Idempotence ==
    (steady /\ run = 2 /\ pc = "done")
        => /\ stats.downloaded = startStats.downloaded
           /\ files = startFiles

\* C2: a call of download_image with an eligible URL whose derived path already
\* exists issues no GET, writes nothing and changes no counter; and in a run no
\* derived path is written by more than one call.
C2_ExistenceShortCircuit ==
    /\ [](\A l \in DOMAIN wcount : wcount[l] <= 1)
    /\ [][ (Calling /\ is_png_image(CallUrl) /\ path_exists(CallPath, dirs, files))
              => /\ stats' = stats
                 /\ dirs' = dirs /\ files' = files
                 /\ last'.gets = 0 ]_vars

\* a call that found the file in place, the file having been written in this run
C2_Witness ==
    /\ last.op = "download" /\ last.ev = "exists"
    /\ last.loc \in DOMAIN wcount

\* C3: a call of download_image with a URL that is not eligible adds exactly 1
\* to skipped_not_png, issues no GET, creates no directory and no file, and
\* leaves downloaded, error and the regions' image counts as they were.
C3_IneligibleAsset ==
    [][ (Calling /\ ~is_png_image(CallUrl))
           => /\ stats' = [stats EXCEPT !.skipped_not_png = @ + 1]
              /\ dirs' = dirs /\ files' = files
              /\ last'.gets = 0 ]_vars

\* an asset that is not a PNG was skipped
C3_Witness ==
    /\ last.op = "download" /\ last.ev = "not_png"
    /\ stats.skipped_not_png >= 1

\* C4: when the fetch of a tournament page fails, the files already written
\* stay, error grows by exactly 1, and main goes on with the next tournament of
\* the root, or with the next root after the last one; every tournament
\* harvested from a root has been fetched when main leaves the root, and every
\* root has been fetched when main is done.
C4_FailureIsolation ==
    /\ []((pc \in {"roots", "done"}) => tally.visited = tally.harvested)
    /\ [](pc = "done" => tally.roots = Len(base_urls))
    /\ [][ (pc = "tournaments" /\ last'.op = "tournament" /\ last'.ev = "fetch_failed")
              => /\ files' = files /\ dirs' = dirs
                 /\ stats' = [stats EXCEPT !.error = @ + 1]
                 /\ IF tIdx < Len(tournaments)
                    THEN /\ pc' = "tournaments" /\ tIdx' = tIdx + 1
                         /\ tournaments' = tournaments /\ rootIdx' = rootIdx
                    ELSE pc' = "roots" /\ rootIdx' = rootIdx + 1 ]_vars

\* with a file stored from the first root, the fetch of the second root's first
\* tournament failed and main is at that root's second tournament
C4_Witness ==
    /\ last.op = "tournament" /\ last.ev = "fetch_failed"
    /\ pc = "tournaments" /\ rootIdx = 2 /\ tIdx = 2
    /\ stats.error = 1 /\ stats.downloaded = 1
    /\ DOMAIN files # {}

\* C5: whatever fails, the network, the parser or the disk, main included,
\* the run is not aborted.
C5_NoFailureFatal == pc # "crashed"

\* C6: a root whose fetch fails adds exactly 1 to error and main goes to the next
\* root; a header is printed for a root exactly when its list of tournaments is
\* not empty, with the region of that root's page and the length of that
\* root's list; the headers follow the order of base_urls.
C6_RootHandling ==
    /\ [](\A i, j \in 1..Len(out) : i < j => out[i].root < out[j].root)
    /\ [][ (pc = "roots" /\ rootIdx <= Len(base_urls))
              => /\ (last'.ev = "fetch_failed")
                       => /\ stats' = [stats EXCEPT !.error = @ + 1]
                          /\ pc' = "roots" /\ rootIdx' = rootIdx + 1
                 /\ IF pc' = "tournaments"
                    THEN /\ tournaments' # <<>>
                         /\ rootIdx' = rootIdx
                         /\ out' = Append(out, [root |-> rootIdx,
                                                region |-> tournaments'[1].region,
                                                count |-> Len(tournaments')])
                    ELSE /\ out' = out
                         /\ pc' = "roots" /\ rootIdx' = rootIdx + 1 ]_vars

\* both roots had a header, the second after a first one of another region
C6_Witness ==
    /\ Len(out) = 2
    /\ out[1].region # out[2].region
    /\ out[2].count = Len(tournaments) /\ pc = "tournaments"

\* C7: at the end of a run, downloaded is the number of calls that stored a
\* body, skipped_not_png the number of assets that were not eligible, error the
\* number of failed units; when nothing failed, the new files are as many as
\* the downloads.
C7_EndToEndCounters ==
    pc = "done"
        => /\ summary.downloaded = tally.stored
           /\ summary.skipped = tally.ineligible
           /\ summary.error = tally.failed
           /\ tally.failed = 0
                 => Cardinality(DOMAIN files \ DOMAIN startFiles) = tally.stored

\* the first root gave 2 tournaments, with one stored, one not eligible and one
\* already on disk among their images; the second root gave none
C7_Witness ==
    /\ pc = "done"
    /\ summary = [downloaded |-> 1, skipped |-> 1, error |-> 0]
    /\ tally.present = 1 /\ tally.harvested = 2 /\ tally.visited = 2
    /\ Len(out) = 1 /\ out[1].root = 1 /\ out[1].count = 2
    /\ Cardinality(DOMAIN files \ DOMAIN startFiles) = 1

\* C8: whenever main is entered, downloaded, skipped_not_png and error are 0
\* and no region is recorded.
C8_StatsResetAtInit ==
    pc = "main"
        => /\ stats.downloaded = 0 /\ stats.skipped_not_png = 0 /\ stats.error = 0
           /\ stats.regions = NoRegions

\* C9: a failed download leaves no file at the derived path that makes a later
\* run skip the asset.
C9_RecoveryByRerun ==
    ~ /\ run > 1
      /\ last.op = "download" /\ last.ev = "exists"
      /\ last.loc \in DOMAIN startFiles
      /\ startFiles[last.loc] = "part"

\* C10: extract_region_name_from_html never returns the empty string.
C10_RegionNeverEmpty == stats.current_region # <<>>

\* C11: every file a call of download_image writes lies directly inside the
\* folder of the region of the tournament the image came from, under a name
\* that ends in .png.
C11_LayoutContainment ==
    [][ \A l \in DOMAIN files' \ DOMAIN files :
            /\ pc = "images"
            /\ ParentOf(l) = MakedirsTarget(FolderPath(tournaments[tIdx].region))
            /\ EndsWith(l[Len(l)], PngSuffix) ]_vars

\* C12: is_png_image(url) is true exactly when the path of the URL, the part
\* before the query string and the fragment, ends with .png, whatever the case
\* of the letters.
C12_Eligibility ==
    (call.fn = "is_png_image" /\ call.done)
        => LET url == call.arg
               marks == {i \in 1..Len(url) : url[i] \in {"?", "#"}}
               cut == IF marks = {} THEN Len(url)
                      ELSE (CHOOSE i \in marks : \A j \in marks : i <= j) - 1
               path == SubSeq(url, 1, cut)
           IN  call.flag = EndsWith(Lower(path), PngSuffix)

\* C13: normalize_filename returns its argument in lower case with every
\* maximal run of whitespace replaced by one hyphen, the runs at the start and
\* at the end included: "Group A Stage" gives "group-a-stage" and
\* "  Multi   Space " gives "-multi-space-".
C13_Normalization ==
    (call.fn = "normalize_filename" /\ call.done)
        => LET s == call.arg
               r == call.text
               kept == {i \in 1..Len(s) :
                           s[i] \notin Whitespace \/ i = 1 \/ s[i - 1] \notin Whitespace}
               rank(i) == Cardinality({j \in kept : j <= i})
           IN  /\ Len(r) = Cardinality(kept)
               /\ \A i \in kept :
                     r[rank(i)] = IF s[i] \in Whitespace THEN "-" ELSE LowerChar(s[i])
               /\ s = GroupAStage => r = <<"g","r","o","u","p","-","a","-","s","t","a","g","e">>
               /\ s = MultiSpace => r = <<"-","m","u","l","t","i","-","s","p","a","c","e","-">>

\* the name with whitespace at both ends has been normalized
C13_Witness ==
    /\ call.fn = "normalize_filename" /\ call.done
    /\ call.arg = MultiSpace
    /\ call.text = <<"-","m","u","l","t","i","-","s","p","a","c","e","-">>

\* C13 as the specification states it: the whitespace at the start and at the
\* end of the name leaves nothing in the result, "  Multi   Space " gives
\* "multi-space".
C13_NormalizationTrimmed ==
    (call.fn = "normalize_filename" /\ call.done)
        => LET s == Strip(call.arg)
               r == call.text
               kept == {i \in 1..Len(s) :
                           s[i] \notin Whitespace \/ i = 1 \/ s[i - 1] \notin Whitespace}
               rank(i) == Cardinality({j \in kept : j <= i})
           IN  /\ Len(r) = Cardinality(kept)
               /\ \A i \in kept :
                     r[rank(i)] = IF s[i] \in Whitespace THEN "-" ELSE LowerChar(s[i])
               /\ call.arg = MultiSpace => r = <<"m","u","l","t","i","-","s","p","a","c","e">>

\* C14: every failure that is caught, of a root page, of the extraction of the
\* region name, of a tournament page, of an asset request, of the creation of a
\* folder or of the writing of a file, adds exactly 1 to error and leaves
\* downloaded and skipped_not_png as they were.
C14_ErrorAccounting ==
    [][ (last'.ev \in {"fetch_failed", "extract_failed", "urljoin_raised",
                       "makedirs_failed", "get_failed", "open_failed", "write_failed"})
           => /\ stats'.error = stats.error + 1
              /\ stats'.downloaded = stats.downloaded
              /\ stats'.skipped_not_png = stats.skipped_not_png ]_vars

\* C15: extract_region_name_from_html returns the sanitized text of the first
\* strategy that finds one, in the order: the breadcrumb pattern in the raw
\* markup, the span followed by a breadcrumb anchor, the first breadcrumb
\* anchor with text, the first configured root URL that occurs in the markup
\* (its last segment in title case), and "Unknown-Region" when none applies.
C15_FallbackOrder ==
    (call.fn = "extract_region_name_from_html" /\ call.done /\ ~call.arg.raises)
        => LET p == call.arg
               given == {i \in 1..Len(p.spans) : p.spans[i] # None}
               texted == {i \in 1..Len(p.crumbs) : Strip(p.crumbs[i]) # <<>>}
               first(S) == CHOOSE i \in S : \A j \in S : i <= j
           IN  call.text =
                  IF p.pattern # None THEN sanitize_folder_name(Strip(p.pattern))
                  ELSE IF given # {}
                       THEN sanitize_folder_name(Strip(p.spans[first(given)]))
                  ELSE IF texted # {}
                       THEN sanitize_folder_name(Strip(p.crumbs[first(texted)]))
                  ELSE IF 1 \in p.urls THEN <<"A","f","r","i","c","a">>
                  ELSE IF 2 \in p.urls THEN <<"A","s","i","a">>
                  ELSE <<"U","n","k","n","o","w","n","-","R","e","g","i","o","n">>

\* the pattern matched one anchor while another breadcrumb anchor with text
\* comes first in the page: the text of the pattern was returned
C15_Witness ==
    /\ call.fn = "extract_region_name_from_html" /\ call.done
    /\ call.arg.pattern = T_slash
    /\ call.arg.crumbs = <<T_Africa, T_slash>>
    /\ call.text = <<"A","-","B">>

\* C16: the roots are fetched in the order of base_urls; the tournaments of a
\* root are fetched one after the other in the order they were harvested,
\* each once, before the next root; within a tournament download_image is
\* called once for each image that has src and alt, in document order, an
\* image without src or alt changing nothing; no step issues more than one
\* request.
C16_SequentialTraversal ==
    [][ /\ (pc = "roots" /\ rootIdx <= Len(base_urls))
              => /\ last'.op = "root" /\ last'.url = base_urls[rootIdx] /\ last'.gets = 1
                 /\ \/ pc' = "tournaments" /\ tIdx' = 1 /\ rootIdx' = rootIdx
                    \/ pc' = "roots" /\ rootIdx' = rootIdx + 1
        /\ (pc = "tournaments")
              => /\ last'.op = "tournament" /\ last'.url = tournaments[tIdx].url
                 /\ last'.gets = 1
        /\ (pc \in {"tournaments", "images"})
              => \/ /\ pc' \in {"tournaments", "images"}
                    /\ tournaments' = tournaments /\ rootIdx' = rootIdx
                    /\ tIdx' = IF pc' = "tournaments" THEN tIdx + 1 ELSE tIdx
                 \/ /\ tIdx = Len(tournaments)
                    /\ pc' = "roots" /\ rootIdx' = rootIdx + 1
        /\ (pc = "images")
              => /\ IF Truthy(images[iIdx][1]) /\ Truthy(images[iIdx][2])
                    THEN /\ last'.op = "download"
                         /\ last'.url = urljoin(tournaments[tIdx].url, images[iIdx][1])
                         /\ last'.gets <= 1
                    ELSE /\ last'.op = "image" /\ last'.gets = 0
                         /\ stats' = stats /\ dirs' = dirs /\ files' = files
                 /\ IF iIdx < Len(images)
                    THEN /\ pc' = "images" /\ iIdx' = iIdx + 1
                         /\ images' = images /\ tIdx' = tIdx
                    ELSE pc' # "images" ]_vars

\* the sum of stats["regions"][r]["images"] over the regions
RECURSIVE SumImages(_)
SumImages(regions) ==
    IF DOMAIN regions = {} THEN 0
    ELSE LET r == CHOOSE k \in DOMAIN regions : TRUE
         IN  regions[r].images
             + SumImages([k \in DOMAIN regions \ {r} |-> regions[k]])

\* C17: the image counts of the regions add up to downloaded, and the image
\* count of a region grows only by 1 and only with a body stored in the folder
\* of that region.
C17_RegionImageCounts ==
    /\ [](SumImages(stats.regions) = stats.downloaded)
    /\ [][ \A r \in DOMAIN stats'.regions :
              RegionEntry(stats'.regions, r).images > RegionEntry(stats.regions, r).images
                 => /\ stats'.regions[r].images = RegionEntry(stats.regions, r).images + 1
                    /\ \E l \in DOMAIN files' \ DOMAIN files :
                          /\ files'[l] = "whole"
                          /\ ParentOf(l) = MakedirsTarget(FolderPath(r)) ]_vars

\* C18: at the end of a run the tournament count of every region in stats is
\* the number of tournaments harvested in the run that carry that region, the
\* counts of roots with the same region adding up.
C18_TournamentCounts ==
    pc = "done"
        => \A r \in DOMAIN stats.regions :
              stats.regions[r].tournaments =
                 IF r \in DOMAIN tally.tagged THEN tally.tagged[r] ELSE 0

=============================================================================
